---- MODULE Spec2Model ----
(***************************************************************************)
(* xml-overview: the scanner (lex_tokens), the tree builder (lex_graph),   *)
(* the minimizer (Graph::minimize) and the renderer (Graph::print).        *)
(*                                                                         *)
(* Text is a sequence of one-character strings; a Rust slice &s[a..b] is   *)
(* Slice(s, a, b) and aborts (Panic) when a > b or b > len.  Option and    *)
(* Result values are records tagged by "kind".                             *)
(***************************************************************************)
EXTENDS Integers, Sequences, FiniteSets, TLC

\* ------------------------------------------------------------------ text
StartsWith(s, p) == Len(p) <= Len(s) /\ SubSeq(s, 1, Len(p)) = p

\* &s[i..] for i <= len
From(s, i) == SubSeq(s, i + 1, Len(s))

\* &s[a..b] for a <= b <= len
Slice(s, a, b) == SubSeq(s, a + 1, b)

\* the slice &s[a..b] is in range (otherwise the slice expression aborts)
SliceOk(s, a, b) == a <= b /\ b <= Len(s)

\* str::find: byte offset of the first occurrence of p in s, -1 for None
Find(s, p) ==
    LET hits == {i \in 0..(Len(s) - Len(p)) : StartsWith(From(s, i), p)}
    IN  IF hits = {} THEN -1 ELSE CHOOSE i \in hits : \A j \in hits : i <= j

\* ---------------------------------------------------------------- tokens
TagOpenStart(name) == [type |-> "TagOpenStart", val |-> name]
TagCloseStart(name) == [type |-> "TagCloseStart", val |-> name]
TagSelfClosing == [type |-> "TagSelfClosing", val |-> <<>>]
TagClosing == [type |-> "TagClosing", val |-> <<>>]
Key(name) == [type |-> "Key", val |-> name]
String(contents) == [type |-> "String", val |-> contents]
Comment(contents) == [type |-> "Comment", val |-> contents]
Whitespace == [type |-> "Whitespace", val |-> <<>>]
Newline == [type |-> "Newline", val |-> <<>>]
Text(contents) == [type |-> "Text", val |-> contents]

\* ------------------------------------------------- Option<LexResult> etc.
None == [kind |-> "None"]
Panic == [kind |-> "Panic"]
Some(token, remainder) == [kind |-> "Some", token |-> token, rest |-> remainder]

\* ------------------------------------------------------------ recognizers
\* In the definitions below "x \in {e}" binds x to the value of e, computed
\* once (a let binding).
RECURSIVE apply(_, _)

\* closing_lexers.iter().any(|lexer| lexer(file).is_some()), evaluated in
\* order: "Some" when a lexer matches, "Panic" when one aborts before any
\* matched, "None" otherwise
RECURSIVE any_is_some(_, _, _)
any_is_some(closing_lexers, file, i) ==
    IF i > Len(closing_lexers) THEN "None"
    ELSE CHOOSE out \in
            {IF k = "None" THEN any_is_some(closing_lexers, file, i + 1) ELSE k :
                k \in {apply(closing_lexers[i], file).kind}} : TRUE

lex_tag_self_closing(file) ==
    IF StartsWith(file, <<"/", ">">>)
    THEN Some(TagSelfClosing, From(file, 2))
    ELSE None

lex_tag_closing(file) ==
    IF StartsWith(file, <<">">>) THEN Some(TagClosing, From(file, 1)) ELSE None

lex_newline(file) ==
    IF StartsWith(file, <<"\n">>) THEN Some(Newline, From(file, 1)) ELSE None

lex_whitespace(file) ==
    IF Len(file) > 0 /\ file[1] \in {" ", "\t"}
    THEN Some(Whitespace, From(file, 1))
    ELSE None

comment_opening_tag == <<"<", "!", "-", "-">>
comment_closing_tag == <<"-", "-", ">">>

lex_comment(file) ==
    IF StartsWith(file, comment_opening_tag)
    THEN CHOOSE out \in
            {IF index = -1 THEN None
             ELSE IF ~SliceOk(file, Len(comment_opening_tag), index) THEN Panic
             ELSE Some(Comment(Slice(file, Len(comment_opening_tag), index)),
                       From(file, index + Len(comment_closing_tag))) :
                index \in {Find(file, comment_closing_tag)}} : TRUE
    ELSE None

lex_string(file) ==
    IF StartsWith(file, <<"\"">>)
    THEN CHOOSE out \in
            {IF end_pos = -1 THEN None
             ELSE Some(String(Slice(file, 1, end_pos + 1)), From(file, end_pos + 2)) :
                end_pos \in {Find(From(file, 1), <<"\"">>)}} : TRUE
    ELSE None

tag_closing_lexers ==
    <<"lex_tag_self_closing", "lex_tag_closing", "lex_comment",
      "lex_whitespace", "lex_newline">>

\* the loop of lex_tag_open: str_body_len at loop exit, -1 when a closing
\* lexer aborts
RECURSIVE tag_body_len(_, _)
tag_body_len(file, n) ==
    IF n >= Len(file) THEN n
    ELSE CHOOSE out \in
            {IF a = "Panic" THEN -1
             ELSE IF a = "Some" THEN n
             ELSE tag_body_len(file, n + 1) :
                a \in {any_is_some(tag_closing_lexers, From(file, n), 1)}} : TRUE

\* Option<(String, String)> as [kind, name, rest]
lex_tag_open(file, tag) ==
    IF ~StartsWith(file, tag) THEN None
    ELSE CHOOSE out \in
            {IF str_body_len = -1 THEN Panic
             ELSE IF ~SliceOk(file, Len(tag), str_body_len) THEN Panic
             ELSE [kind |-> "Some",
                   name |-> Slice(file, Len(tag), str_body_len),
                   rest |-> From(file, str_body_len)] :
                str_body_len \in {tag_body_len(file, 0)}} : TRUE

lex_tag_open_start(file) ==
    CHOOSE out \in
        {IF r.kind = "Some" THEN Some(TagOpenStart(r.name), r.rest) ELSE r :
            r \in {lex_tag_open(file, <<"<">>)}} : TRUE

lex_tag_close_start(file) ==
    CHOOSE out \in
        {IF r.kind = "Some" THEN Some(TagCloseStart(r.name), r.rest) ELSE r :
            r \in {lex_tag_open(file, <<"<", "/">>)}} : TRUE

key_closing_lexers ==
    <<"lex_tag_open_start", "lex_tag_close_start", "lex_tag_self_closing",
      "lex_tag_closing", "lex_comment", "lex_string">>

\* the loop of lex_key: txt_body_len at loop exit, -1 when a closing lexer
\* aborts, -2 when a closing lexer matches (return None)
RECURSIVE key_body_len(_, _)
key_body_len(file, n) ==
    IF n >= Len(file) THEN n
    ELSE CHOOSE out \in
            {IF a = "Panic" THEN -1
             ELSE IF a = "Some" THEN -2
             ELSE IF file[n + 1] = "=" THEN n
             ELSE key_body_len(file, n + 1) :
                a \in {any_is_some(key_closing_lexers, From(file, n), 1)}} : TRUE

lex_key(file) ==
    CHOOSE out \in
        {IF txt_body_len = -1 THEN Panic
         ELSE IF txt_body_len = -2 THEN None
         ELSE IF txt_body_len + 1 > Len(file) THEN Panic
         ELSE Some(Key(Slice(file, 0, txt_body_len)), From(file, txt_body_len + 1)) :
            txt_body_len \in {key_body_len(file, 0)}} : TRUE

text_closing_lexers ==
    <<"lex_tag_open_start", "lex_tag_close_start", "lex_tag_self_closing",
      "lex_tag_closing", "lex_comment">>

\* the loop of lex_text: txt_body_len at loop exit, -1 when a closing lexer
\* aborts
RECURSIVE text_body_len(_, _)
text_body_len(file, n) ==
    IF n >= Len(file) THEN n
    ELSE CHOOSE out \in
            {IF a = "Panic" THEN -1
             ELSE IF a = "Some" THEN n
             ELSE text_body_len(file, n + 1) :
                a \in {any_is_some(text_closing_lexers, From(file, n), 1)}} : TRUE

lex_text(file) ==
    CHOOSE out \in
        {IF txt_body_len = -1 THEN Panic
         ELSE Some(Text(Slice(file, 0, txt_body_len)), From(file, txt_body_len)) :
            txt_body_len \in {text_body_len(file, 0)}} : TRUE

\* a recognizer called through its function pointer
apply(lexer, file) ==
    CASE lexer = "lex_comment" -> lex_comment(file)
      [] lexer = "lex_string" -> lex_string(file)
      [] lexer = "lex_tag_close_start" -> lex_tag_close_start(file)
      [] lexer = "lex_tag_open_start" -> lex_tag_open_start(file)
      [] lexer = "lex_tag_self_closing" -> lex_tag_self_closing(file)
      [] lexer = "lex_tag_closing" -> lex_tag_closing(file)
      [] lexer = "lex_whitespace" -> lex_whitespace(file)
      [] lexer = "lex_newline" -> lex_newline(file)
      [] lexer = "lex_key" -> lex_key(file)
      [] lexer = "lex_text" -> lex_text(file)

lexers ==
    <<"lex_comment", "lex_string", "lex_tag_close_start", "lex_tag_open_start",
      "lex_tag_self_closing", "lex_tag_closing", "lex_whitespace",
      "lex_newline", "lex_key", "lex_text">>

\* the first recognizer of lexers[i..] that does not return None
RECURSIVE first_match(_, _)
first_match(file, i) ==
    IF i > Len(lexers) THEN None
    ELSE CHOOSE out \in
            {IF r.kind = "None" THEN first_match(file, i + 1) ELSE r :
                r \in {apply(lexers[i], file)}} : TRUE

\* Result<LexResult, LexError>: Ok is [kind "Some"], Err(UnexpectedString(file))
\* is [kind "Err"], an abort is Panic
lex_token(file) ==
    CHOOSE out \in
        {IF r.kind = "None" THEN [kind |-> "Err", file |-> file] ELSE r :
            r \in {first_match(file, 1)}} : TRUE

\* one iteration of the loop of lex_tokens: "Continue" with the token pushed
\* and the remainder to lex, "Ok" (break, then Ok(tokens)), "Err" or "Panic"
lex_tokens_iter(file_to_lex_, tokens_) ==
    CHOOSE out \in
        {IF r.kind = "Some"
         THEN [kind |-> IF Len(r.rest) = 0 THEN "Ok" ELSE "Continue",
               tokens |-> Append(tokens_, r.token),
               file_to_lex |-> r.rest]
         ELSE [kind |-> r.kind, tokens |-> tokens_, file_to_lex |-> file_to_lex_] :
            r \in {lex_token(file_to_lex_)}} : TRUE

\* lex_tokens run to completion
RECURSIVE lex_tokens_from(_, _)
lex_tokens_from(file_to_lex_, tokens_) ==
    CHOOSE out \in
        {IF r.kind = "Continue" THEN lex_tokens_from(r.file_to_lex, r.tokens) ELSE r :
            r \in {lex_tokens_iter(file_to_lex_, tokens_)}} : TRUE

lex_tokens(file_) == lex_tokens_from(file_, <<>>)

\* ------------------------------------------------------------------ Vec<T>
\* a Vec is a function on 0..len-1
VecLen(v) == Cardinality(DOMAIN v)
Push(v, x) == [i \in 0..VecLen(v) |-> IF i < VecLen(v) THEN v[i] ELSE x]

\* iter().position(|t| ...) for a predicate on the token's variant: 0-based
\* index of the first token of s whose type is in types, -1 for None
position(s, types) ==
    LET hits == {i \in 1..Len(s) : s[i].type \in types}
    IN  IF hits = {} THEN -1 ELSE (CHOOSE i \in hits : \A j \in hits : i <= j) - 1

\* ------------------------------------------------------------------ Graph
\* NodeOrToken
N(id) == [kind |-> "N", id |-> id]
T(token) == [kind |-> "T", token |-> token]

\* Option<usize> of Node.parent: <<>> is None, <<i>> is Some(i)
Node(id, name, keys, parent, children) ==
    [id |-> id, name |-> name, keys |-> keys, parent |-> parent, children |-> children]

Graph_new ==
    [nodes |-> Push(<<>>, Node(0, <<"0">>, <<>>, <<>>, <<>>)),
     size |-> 1,
     current |-> 0]

\* the node identity add_node gives the node it pushes
new_node_id(g) == g.size

\* the value add_node leaves in size
next_size_forgotten(g) == g.size
next_size(g) == g.size + 1

add_node(g, name, keys) ==
    CHOOSE out \in
        {[nodes |-> [Push(g.nodes, Node(id, name, keys, <<g.current>>, <<>>))
                        EXCEPT ![g.current].children = Append(@, N(id))],
          size |-> next_size(g),
          current |-> id] :
            id \in {new_node_id(g)}} : TRUE

add_token(g, token) ==
    [g EXCEPT !.nodes[g.current].children = Append(@, T(token))]

close_current(g) ==
    IF g.nodes[g.current].parent # <<>>
    THEN [g EXCEPT !.current = g.nodes[g.current].parent[1]]
    ELSE g

\* the ids of the N entries of a children list, in order
RECURSIVE node_ids(_)
node_ids(children) ==
    IF children = <<>> THEN <<>>
    ELSE IF Head(children).kind = "N"
         THEN <<Head(children).id>> \o node_ids(Tail(children))
         ELSE node_ids(Tail(children))

count_child_nodes(node) == Len(node_ids(node.children))

\* [String].join(sep)
RECURSIVE join(_, _)
join(strs, sep) ==
    IF strs = <<>> THEN <<>>
    ELSE IF Len(strs) = 1 THEN strs[1]
    ELSE strs[1] \o sep \o join(Tail(strs), sep)

unique_child_key(child) == child.name \o <<",">> \o join(child.keys, <<",">>)

\* whether child takes the child_map entry held by c
replaces_on_tie(c, child) == count_child_nodes(c) <= count_child_nodes(child)
replaces(c, child) == count_child_nodes(c) < count_child_nodes(child)

\* the loop that fills child_map (a function from keys to nodes)
RECURSIVE build_child_map(_, _, _)
build_child_map(child_nodes, i, child_map) ==
    IF i > Len(child_nodes) THEN child_map
    ELSE CHOOSE out \in
            {build_child_map(child_nodes, i + 1, next_map) :
                next_map \in
                    {LET child == child_nodes[i]
                         k == unique_child_key(child)
                         inserted == [x \in DOMAIN child_map \cup {k} |->
                                        IF x = k THEN child ELSE child_map[x]]
                     IN  IF k \in DOMAIN child_map
                         THEN IF replaces(child_map[k], child)
                              THEN inserted
                              ELSE child_map
                         ELSE inserted}} : TRUE

\* the filter that rewrites self.children
keeps_not_remaining(c, remaining_child_ids) ==
    c.kind = "T" \/ c.id \notin remaining_child_ids
keeps(c, remaining_child_ids) ==
    c.kind = "T" \/ c.id \in remaining_child_ids

\* for (i, n) in new_nodes.iter().enumerate(): the shorter children list wins
merge_nodes(updated_nodes, new_nodes) ==
    [i \in DOMAIN updated_nodes |->
        IF Len(updated_nodes[i].children) > Len(new_nodes[i].children)
        THEN new_nodes[i]
        ELSE updated_nodes[i]]

\* Node::minimize: [children |-> self.children afterwards, nodes |-> returned Vec]
RECURSIVE Node_minimize(_, _)
RECURSIVE node_minimize_loop(_, _, _, _)
node_minimize_loop(children, i, nodes, updated_nodes) ==
    IF i > Len(children) THEN updated_nodes
    ELSE IF children[i].kind = "N"
         THEN CHOOSE out \in
                {node_minimize_loop(children, i + 1, nodes, merged) :
                    merged \in
                        {CHOOSE m \in
                            {merge_nodes(updated_nodes, new_nodes) :
                                new_nodes \in
                                    {Node_minimize(nodes[children[i].id], nodes).nodes}} :
                            TRUE}} : TRUE
         ELSE node_minimize_loop(children, i + 1, nodes, updated_nodes)

\* the child nodes self.children names, cloned from nodes, in order
child_nodes_of(self, nodes) ==
    CHOOSE out \in
        {[i \in 1..Len(ids) |-> nodes[ids[i]]] : ids \in {node_ids(self.children)}} :
        TRUE

\* the ids of the values of child_map
remaining_ids(self, nodes) ==
    CHOOSE out \in
        {{child_map[k].id : k \in DOMAIN child_map} :
            child_map \in {build_child_map(child_nodes_of(self, nodes), 1, <<>>)}} :
        TRUE

\* self.children after the filter
filtered_children(self, nodes) ==
    CHOOSE out \in
        {SelectSeq(self.children, LAMBDA c : keeps(c, remaining_child_ids)) :
            remaining_child_ids \in {remaining_ids(self, nodes)}} : TRUE

Node_minimize(self, nodes) ==
    CHOOSE out \in
        {[children |-> children,
          nodes |-> node_minimize_loop(children, 1, nodes,
                        [nodes EXCEPT ![self.id].children = children])] :
            children \in {filtered_children(self, nodes)}} : TRUE

\* the node whose children Graph::minimize walks
minimize_start(g) == g.current

\* the loop of Graph::minimize; self_nodes is self.nodes, which the &mut self
\* call of Node::minimize rewrites in place
RECURSIVE graph_minimize_loop(_, _, _, _)
graph_minimize_loop(child_ids, i, self_nodes, updated_nodes) ==
    IF i > Len(child_ids) THEN updated_nodes
    ELSE CHOOSE out \in
            {graph_minimize_loop(child_ids, i + 1, next[1], next[2]) :
                next \in
                    {CHOOSE n \in
                        {<<[self_nodes EXCEPT ![child_ids[i]].children = r.children],
                           merge_nodes(updated_nodes, r.nodes)>> :
                            r \in {Node_minimize(self_nodes[child_ids[i]], self_nodes)}} :
                        TRUE}} : TRUE

Graph_minimize(g) ==
    [g EXCEPT !.nodes =
        graph_minimize_loop(node_ids(g.nodes[minimize_start(g)].children), 1,
                            g.nodes, g.nodes)]

\* ------------------------------------------------------------------ print
EndsWith(s, p) == Len(p) <= Len(s) /\ SubSeq(s, Len(s) - Len(p) + 1, Len(s)) = p

\* what print appends for a leaf token
print_token_with_comments(res, t) ==
    CASE t.type = "Whitespace" -> res \o <<" ">>
      [] t.type = "Newline" -> IF EndsWith(res, <<"\n">>) THEN res ELSE res \o <<"\n">>
      [] t.type = "Comment" -> res \o <<"<", "!", "-", "-", " ">> \o t.val \o <<" ", "-", "-", ">">>
      [] t.type = "Text" -> res \o t.val
      [] OTHER -> res
print_token(res, t) ==
    CASE t.type = "Whitespace" -> res \o <<" ">>
      [] t.type = "Newline" -> IF EndsWith(res, <<"\n">>) THEN res ELSE res \o <<"\n">>
      [] t.type = "Comment" -> res
      [] t.type = "Text" -> res \o t.val
      [] OTHER -> res

\* format!("{}=\"\"", k) for each key
RECURSIVE format_keys(_)
format_keys(keys) ==
    IF keys = <<>> THEN <<>>
    ELSE <<Head(keys) \o <<"=", "\"", "\"">>>> \o format_keys(Tail(keys))

RECURSIVE Node_print(_, _)
RECURSIVE print_children(_, _, _, _)
print_children(children, i, res, nodes) ==
    IF i > Len(children) THEN res
    ELSE CHOOSE out \in
            {print_children(children, i + 1, next_res, nodes) :
                next_res \in
                    {LET child == children[i]
                     IN  IF child.kind = "N"
                         THEN IF child.id \in DOMAIN nodes
                              THEN res \o Node_print(nodes[child.id], nodes)
                              ELSE res
                         ELSE print_token(res, child.token)}} : TRUE

Node_print(self, nodes) ==
    LET head == <<"<">> \o self.name
                \o (IF Len(self.keys) > 0 THEN <<" ">> ELSE <<>>)
                \o join(format_keys(self.keys), <<" ">>)
    IN  IF Len(self.children) = 0
        THEN head \o <<"/", ">">>
        ELSE print_children(self.children, 1, head \o <<">">>, nodes)
             \o <<"<", "/">> \o self.name \o <<">">>

Graph_print(g) == Node_print(g.nodes[0], g.nodes)

\* ----------------------------------------------------------------- convert
\* String::replace_range(a..b, ""): [kind, string]; aborts when the range is
\* out of bounds or reversed (also when computing result.len() - 5 underflows)
replace_range(s, a, b) ==
    IF a < 0 \/ ~SliceOk(s, a, b) THEN [kind |-> "Panic", string |-> s]
    ELSE [kind |-> "Ok", string |-> Slice(s, 0, a) \o From(s, b)]

\* the number of characters convert takes off the front and off the end
front_strip_len == 3
end_strip_len == 5

\* result.replace_range(0..3, ""); result.replace_range(result.len() - 5..result.len(), "")
strip_root(printed) ==
    CHOOSE out \in
        {IF front.kind = "Panic" THEN front
         ELSE replace_range(front.string, Len(front.string) - end_strip_len,
                            Len(front.string)) :
            front \in {replace_range(printed, 0, front_strip_len)}} : TRUE

\* --------------------------------------------------------------- lex_graph
\* the Key names of a token slice, in order
RECURSIVE key_names(_)
key_names(toks) ==
    IF toks = <<>> THEN <<>>
    ELSE IF Head(toks).type = "Key"
         THEN <<Head(toks).val>> \o key_names(Tail(toks))
         ELSE key_names(Tail(toks))

\* graph.add_token for each token of a slice
RECURSIVE add_tokens(_, _)
add_tokens(g, toks) ==
    IF toks = <<>> THEN g
    ELSE CHOOSE out \in
            {add_tokens(next_g, Tail(toks)) : next_g \in {add_token(g, Head(toks))}} :
            TRUE

\* the result of one match arm: "Continue" (fall through to the end of the
\* loop body), "Break", "Err" or "Panic"
Arm(kind, remaining, g) == [kind |-> kind, remaining_tokens |-> remaining, graph |-> g]

arm_tag_open_start(tag_name, remaining, g) ==
    CHOOSE out \in
        {IF closing_tag_pos = -1 THEN Arm("Err", remaining, g)
         ELSE IF ~SliceOk(remaining, 1, closing_tag_pos) THEN Arm("Panic", remaining, g)
         ELSE Arm("Continue",
                  From(remaining, closing_tag_pos),
                  add_node(g, tag_name,
                           key_names(Slice(remaining, 1, closing_tag_pos)))) :
            closing_tag_pos \in
                {position(remaining, {"TagClosing", "TagSelfClosing"})}} : TRUE

arm_tag_close_start(remaining, g) ==
    CHOOSE out \in
        {IF closing_tag_pos = -1 THEN Arm("Err", remaining, g)
         ELSE Arm("Continue", From(remaining, closing_tag_pos + 1), close_current(g)) :
            closing_tag_pos \in {position(remaining, {"TagClosing"})}} : TRUE

arm_tag_closing(remaining, g) ==
    IF Len(remaining) < 1 THEN Arm("Panic", remaining, g)
    ELSE CHOOSE out \in
            {IF pos = -1 THEN Arm("Break", remaining, g)
             ELSE IF ~SliceOk(remaining, 1, pos) THEN Arm("Panic", remaining, g)
             ELSE Arm("Continue", From(remaining, 1),
                      add_tokens(g, Slice(remaining, 1, pos))) :
                pos \in {position(From(remaining, 1),
                                  {"TagCloseStart", "TagOpenStart"})}} : TRUE

arm_tag_self_closing(remaining, g) ==
    IF Len(remaining) < 1 THEN Arm("Panic", remaining, close_current(g))
    ELSE Arm("Continue", From(remaining, 1), close_current(g))

arm_other(t, remaining, g) ==
    IF Len(remaining) < 1 THEN Arm("Panic", remaining, add_token(g, t))
    ELSE Arm("Continue", From(remaining, 1), add_token(g, t))

\* match current_token { ... }
lex_graph_match(t, remaining, g) ==
    CASE t.type = "TagOpenStart" -> arm_tag_open_start(t.val, remaining, g)
      [] t.type = "TagCloseStart" -> arm_tag_close_start(remaining, g)
      [] t.type = "TagClosing" -> arm_tag_closing(remaining, g)
      [] t.type = "TagSelfClosing" -> arm_tag_self_closing(remaining, g)
      [] OTHER -> arm_other(t, remaining, g)

\* ----------------------------------------------------------------- inputs
\* bounds of the model
MaxLen == 3
MaxTokens == 3
MaxNodes == 3
MaxMinimize == 2

Alphabet == {"<", "/", ">", "!", "-", "\"", "=", " ", "\n", "x"}

\* every text of at most n characters
Strs(n) == UNION {[1..k -> Alphabet] : k \in 0..n}

\* <x/>
Doc_x ==
    <<"<", "x", "/", ">">>

\* <x />
Doc_x_spaced ==
    <<"<", "x", " ", "/", ">">>

\* <a><b k="1">t</b></a>
Doc_ab ==
    <<"<", "a", ">", "<", "b", " ", "k", "=", "\"", "1", "\"", ">", "t",
      "<", "/", "b", ">", "<", "/", "a", ">">>

\* <a><b></a>
Doc_unclosed ==
    <<"<", "a", ">", "<", "b", ">", "<", "/", "a", ">">>

\* <!-- note --><a/>
Doc_note ==
    <<"<", "!", "-", "-", " ", "n", "o", "t", "e", " ", "-", "-", ">", "<",
      "a", "/", ">">>

\* </ <!-- comment --> > (tests::test_lex_all_tokens)
Doc_close_comment ==
    <<"<", "/", " ", "<", "!", "-", "-", " ", "c", "o", "m", "m", "e", "n",
      "t", " ", "-", "-", ">", " ", ">">>

\* a lone "
Doc_quote ==
    <<"\"">>

\* \n\n<p>\n<item/><item/><item/></p>
Doc_nl_items ==
    <<"\n", "\n", "<", "p", ">", "\n", "<", "i", "t", "e", "m", "/", ">",
      "<", "i", "t", "e", "m", "/", ">", "<", "i", "t", "e", "m", "/", ">",
      "<", "/", "p", ">">>

\* \n\n<p>\n<r/><r>\n<c/></r></p>
Doc_nl_richer ==
    <<"\n", "\n", "<", "p", ">", "\n", "<", "r", "/", ">", "<", "r", ">",
      "\n", "<", "c", "/", ">", "<", "/", "r", ">", "<", "/", "p", ">">>

\* \n\n<item/><item/><item/>
Doc_nl_roots ==
    <<"\n", "\n", "<", "i", "t", "e", "m", "/", ">", "<", "i", "t", "e",
      "m", "/", ">", "<", "i", "t", "e", "m", "/", ">">>

\* \n\n<a>\n<b>\n</a>
Doc_nl_unclosed ==
    <<"\n", "\n", "<", "a", ">", "\n", "<", "b", ">", "\n", "<", "/", "a",
      ">">>

\* \n\n<a>\n<b k="1">t</b></a>
Doc_nl_ab ==
    <<"\n", "\n", "<", "a", ">", "\n", "<", "b", " ", "k", "=", "\"", "1",
      "\"", ">", "t", "<", "/", "b", ">", "<", "/", "a", ">">>

\* \n\n<!-- note --><a/>
Doc_nl_note ==
    <<"\n", "\n", "<", "!", "-", "-", " ", "n", "o", "t", "e", " ", "-",
      "-", ">", "<", "a", "/", ">">>

\* \n\n<!--n-->"1"<a/>
Doc_nl_stray ==
    <<"\n", "\n", "<", "!", "-", "-", "n", "-", "-", ">", "\"", "1", "\"", "<",
      "a", "/", ">">>

\* </x>
Doc_close ==
    <<"<", "/", "x", ">">>

\* \n\n<a>\n t</a>
Doc_nl_leaves ==
    <<"\n", "\n", "<", "a", ">", "\n", " ", "t", "<", "/", "a", ">">>

\* <!-->
Doc_short_comment ==
    <<"<", "!", "-", "-", ">">>

\* x<!--c-->
Doc_text_comment ==
    <<"x", "<", "!", "-", "-", "c", "-", "-", ">">>

Documents ==
    {Doc_x, Doc_x_spaced, Doc_ab, Doc_unclosed,
     Doc_note, Doc_close_comment, Doc_quote, Doc_nl_items,
     Doc_nl_richer, Doc_nl_roots, Doc_nl_unclosed, Doc_nl_ab,
     Doc_nl_note, Doc_nl_stray, Doc_close, Doc_nl_leaves,
     Doc_short_comment, Doc_text_comment}

Files == Strs(MaxLen) \cup Documents

TokenAlphabet ==
    {TagOpenStart(<<"r">>), TagCloseStart(<<"r">>), TagSelfClosing, TagClosing,
     Key(<<"k">>), String(<<"1">>), Comment(<<"n">>), Whitespace, Newline,
     Text(<<"t">>)}

\* every token sequence of at most n tokens
TokenSeqs(n) == UNION {[1..k -> TokenAlphabet] : k \in 0..n}

\* documents of nested elements: an element is <name/> or <name>\n...</name>,
\* named r or c, r with or without the attribute k="1"
Labels ==
    {<<"r">>, <<"c">>, <<"r", " ", "k", "=", "\"", "1", "\"">>}

element_name(label) == <<label[1]>>

element_text(label, inner) ==
    IF inner = <<>>
    THEN <<"<">> \o label \o <<"/", ">">>
    ELSE <<"<">> \o label \o <<">", "\n">> \o inner
         \o <<"<", "/">> \o element_name(label) \o <<">">>

\* the texts of the forests of exactly n elements
RECURSIVE forest_texts(_)
forest_texts(n) ==
    IF n = 0 THEN {<<>>}
    ELSE UNION {{element_text(l, a) \o b :
                    l \in Labels, a \in forest_texts(k), b \in forest_texts(n - 1 - k)} :
                k \in 0..(n - 1)}

TreeDocs ==
    {<<"\n", "\n">> \o t : t \in UNION {forest_texts(n) : n \in 1..MaxNodes}}

\* what lex_graph is called with: any short token sequence, or the tokens
\* lex_tokens returns for a document
GraphInputs ==
    {[file |-> <<>>, tokens |-> ts] : ts \in TokenSeqs(MaxTokens)}
    \cup {[file |-> d, tokens |-> lex_tokens(d).tokens] :
            d \in {d \in Documents \cup TreeDocs : lex_tokens(d).kind = "Ok"}}

\* ------------------------------------------------------------------ state
VARIABLES
    file,              \* the input text (of convert, of lex_tokens)
    file_to_lex,       \* lex_tokens: the remainder still to scan
    tokens,            \* lex_tokens: the tokens pushed; then lex_graph's input
    pc,                \* where the run is
    current_token,     \* lex_graph
    remaining_tokens,  \* lex_graph
    graph,             \* lex_graph's Graph, then convert's
    origin,            \* history: origin[n] is the index in tokens of the
                       \* TagOpenStart token node n was created for
    built,             \* history: the Graph as lex_graph returned it
    minimized,         \* the number of Graph::minimize calls made
    output,            \* the String Graph::print returned
    result             \* convert: the String it returns

vars ==
    <<file, file_to_lex, tokens, pc, current_token, remaining_tokens, graph,
      origin, built, minimized, output, result>>

\* index in tokens of current_token: tokens[0] in the first iteration (when
\* remaining_tokens is tokens[1..]), remaining_tokens[0] afterwards
current_index ==
    IF Len(tokens) - Len(remaining_tokens) = 1 THEN 0
    ELSE Len(tokens) - Len(remaining_tokens)

InitRest ==
    /\ current_token = None
    /\ remaining_tokens = <<>>
    /\ graph = Graph_new
    /\ origin = <<>>
    /\ built = Graph_new
    /\ minimized = 0
    /\ output = <<>>
    /\ result = <<>>

\* convert(path) after the file was read
Init ==
    /\ file \in Files
    /\ file_to_lex = file
    /\ tokens = <<>>
    /\ pc = "lex_tokens"
    /\ InitRest

\* lex_graph(tokens) called
InitGraph ==
    /\ \E inp \in GraphInputs : file = inp.file /\ tokens = inp.tokens
    /\ file_to_lex = <<>>
    /\ pc = "lexed"
    /\ InitRest

\* one iteration of the loop of lex_tokens
LexToken ==
    /\ pc = "lex_tokens"
    /\ \E r \in {lex_tokens_iter(file_to_lex, tokens)} :
           /\ tokens' = r.tokens
           /\ file_to_lex' = r.file_to_lex
           /\ pc' = CASE r.kind = "Continue" -> "lex_tokens"
                      [] r.kind = "Ok" -> "lexed"
                      [] r.kind = "Err" -> "lex_err"
                      [] r.kind = "Panic" -> "lex_panic"
    /\ UNCHANGED <<file, current_token, remaining_tokens, graph, origin, built,
                   minimized, output, result>>

\* lex_graph up to its loop
LexGraphStart ==
    /\ pc = "lexed"
    /\ IF Len(tokens) = 0
       THEN /\ pc' = "graph_err"
            /\ UNCHANGED <<current_token, remaining_tokens, graph>>
       ELSE /\ current_token' = tokens[1]
            /\ remaining_tokens' = From(tokens, 1)
            /\ graph' = Graph_new
            /\ pc' = "lex_graph"
    /\ UNCHANGED <<file, file_to_lex, tokens, origin, built, minimized, output, result>>

\* one iteration of the loop of lex_graph
LexGraphStep ==
    /\ pc = "lex_graph"
    /\ \E r \in {lex_graph_match(current_token, remaining_tokens, graph)} :
       LET done == r.kind = "Break" \/ (r.kind = "Continue" /\ r.remaining_tokens = <<>>)
       IN  /\ remaining_tokens' = r.remaining_tokens
           /\ graph' = r.graph
           /\ current_token' =
                 IF r.kind = "Continue" /\ r.remaining_tokens # <<>>
                 THEN r.remaining_tokens[1]
                 ELSE current_token
           /\ pc' = CASE r.kind = "Err" -> "graph_err"
                      [] r.kind = "Panic" -> "graph_panic"
                      [] done -> "built"
                      [] OTHER -> "lex_graph"
           /\ built' = IF done THEN r.graph ELSE built
           /\ origin' = IF current_token.type = "TagOpenStart" /\ r.kind = "Continue"
                        THEN Append(origin, current_index)
                        ELSE origin
    /\ UNCHANGED <<file, file_to_lex, tokens, minimized, output, result>>

\* convert: graph.minimize()
ConvertMinimize ==
    /\ pc = "built"
    /\ graph' = Graph_minimize(graph)
    /\ minimized' = minimized + 1
    /\ pc' = "minimized"
    /\ UNCHANGED <<file, file_to_lex, tokens, current_token, remaining_tokens,
                   origin, built, output, result>>

\* convert: result = graph.print(), then the two replace_range calls that
\* take the tags of the root element off, and the return
ConvertPrint ==
    /\ pc = "minimized"
    /\ \E r \in {strip_root(Graph_print(graph))} :
           /\ output' = Graph_print(graph)
           /\ result' = r.string
           /\ pc' = IF r.kind = "Panic" THEN "convert_panic" ELSE "returned"
    /\ UNCHANGED <<file, file_to_lex, tokens, current_token, remaining_tokens,
                   graph, origin, built, minimized>>

\* Graph::minimize called on a built graph, again on a minimized one
CallMinimize ==
    /\ pc \in {"built", "minimized"}
    /\ minimized < MaxMinimize
    /\ graph' = Graph_minimize(graph)
    /\ minimized' = minimized + 1
    /\ pc' = "minimized"
    /\ UNCHANGED <<file, file_to_lex, tokens, current_token, remaining_tokens,
                   origin, built, output, result>>

\* Graph::print called on a built or minimized graph
CallPrint ==
    /\ pc \in {"built", "minimized"}
    /\ output' = Graph_print(graph)
    /\ pc' = "printed"
    /\ UNCHANGED <<file, file_to_lex, tokens, current_token, remaining_tokens,
                   graph, origin, built, minimized, result>>

Next == LexToken \/ LexGraphStart \/ LexGraphStep \/ ConvertMinimize \/ ConvertPrint

Spec == Init /\ [][Next]_vars

\* convert runs on one thread and none of its steps waits for anything: a step
\* that can be taken is taken
SpecLive == Init /\ [][Next]_vars /\ WF_vars(Next)

NextGraph == LexGraphStart \/ LexGraphStep \/ CallMinimize \/ CallPrint

SpecGraph == InitGraph /\ [][NextGraph]_vars

\* ------------------------------------------------------------------ claims
lex_tokens_done == pc # "lex_tokens"
lex_graph_done == pc \notin {"lex_tokens", "lexed", "lex_graph"}
lex_graph_ok == pc \in {"built", "minimized", "printed", "returned", "convert_panic"}

\* C1: for the input <x/> lex_tokens returns [TagOpenStart("x"),
\* TagSelfClosing], and lex_graph returns Ok with a tree whose root has exactly
\* one child, a node named x without keys and without children; the same tree
\* results for <x />.
C1_SelfClosingElement ==
    /\ (file = Doc_x /\ lex_tokens_done) =>
          /\ pc \notin {"lex_err", "lex_panic"}
          /\ tokens = <<TagOpenStart(<<"x">>), TagSelfClosing>>
    /\ (file \in {Doc_x, Doc_x_spaced} /\ lex_graph_done) =>
          /\ lex_graph_ok
          /\ VecLen(built.nodes) = 2
          /\ built.nodes[0].children = <<N(1)>>
          /\ built.nodes[1].name = <<"x">>
          /\ built.nodes[1].keys = <<>>
          /\ built.nodes[1].children = <<>>

\* C5: lex_graph never returns Ok with the current node still below the root
\* (an opened element that was never closed); for <a><b></a> it returns an
\* error.
C5_UnclosedElementFails ==
    /\ pc = "built" => built.current = 0
    /\ (file = Doc_unclosed /\ lex_graph_done) => pc = "graph_err"

\* C6: for an input made of a lone unterminated " lex_tokens returns
\* Err(UnexpectedString) carrying the unconsumed remainder: it neither returns
\* Ok nor aborts.
C6_LoneQuoteIsLexError ==
    (file = Doc_quote /\ lex_tokens_done) =>
        (pc = "lex_err" /\ file_to_lex = Doc_quote /\ tokens = <<>>)

\* a terminator of a tag name matches at the start of s: />, >, a comment, a
\* space or tab, a newline
NameTerminator(s) ==
    \/ StartsWith(s, <<"/", ">">>)
    \/ StartsWith(s, <<">">>)
    \/ (StartsWith(s, comment_opening_tag) /\ Find(s, comment_closing_tag) # -1)
    \/ (Len(s) > 0 /\ s[1] \in {" ", "\t", "\n"})

\* the first position at or after the marker where a terminator matches, the
\* length of f if there is none
NameEnd(f, marker) ==
    LET ends == {i \in Len(marker)..Len(f) : i = Len(f) \/ NameTerminator(From(f, i))}
    IN  CHOOSE i \in ends : \A j \in ends : i <= j

\* the first lex_token call on file returned (token, remainder)
FirstTokenIs(token, remainder) ==
    /\ Len(tokens) >= 1
    /\ tokens[1] = token
    /\ Len(tokens) = 1 => file_to_lex = remainder

\* the first lex_token call on file has returned or aborted
FirstTokenDone == tokens # <<>> \/ pc # "lex_tokens"

\* C10: for an input that starts with </ (resp. with < not followed by / and
\* not starting a comment) lex_token returns TagCloseStart(name) (resp.
\* TagOpenStart(name)), name being the text between the marker and the first
\* later terminator, and the remainder begins at that terminator.
C10_TagNameScan ==
    /\ (StartsWith(file, <<"<", "/">>) /\ FirstTokenDone) =>
          FirstTokenIs(
              TagCloseStart(Slice(file, 2, NameEnd(file, <<"<", "/">>))),
              From(file, NameEnd(file, <<"<", "/">>)))
    /\ (/\ StartsWith(file, <<"<">>)
        /\ ~StartsWith(file, <<"<", "/">>)
        /\ ~StartsWith(file, comment_opening_tag)
        /\ FirstTokenDone) =>
          FirstTokenIs(
              TagOpenStart(Slice(file, 1, NameEnd(file, <<"<">>))),
              From(file, NameEnd(file, <<"<">>)))

\* the ids of the node children of node p of a node Vec
KidIds(nodes, p) ==
    {nodes[p].children[k].id :
        k \in {k \in 1..Len(nodes[p].children) : nodes[p].children[k].kind = "N"}}

\* the nodes reachable from the nodes of S through children lists
RECURSIVE ReachableFrom(_, _)
ReachableFrom(nodes, S) ==
    LET next == S \cup UNION {KidIds(nodes, p) : p \in S}
    IN  IF next = S THEN S ELSE ReachableFrom(nodes, next)

\* node p has at most one node child per shape key
OnePerShape(nodes, p) ==
    \A i, j \in 1..Len(nodes[p].children) :
        (/\ i < j
         /\ nodes[p].children[i].kind = "N"
         /\ nodes[p].children[j].kind = "N") =>
            unique_child_key(nodes[nodes[p].children[i].id])
                # unique_child_key(nodes[nodes[p].children[j].id])

\* C2: after Graph::minimize every node reachable from the root, the root
\* included, has at most one node child per shape key.
C2_OneChildPerShape ==
    pc = "minimized" =>
        \A p \in ReachableFrom(graph.nodes, {0}) : OnePerShape(graph.nodes, p)

\* the number of immediate node children of node d as lex_graph built it
BuiltCount(d) ==
    Cardinality({k \in 1..Len(built.nodes[d].children) :
                    built.nodes[d].children[k].kind = "N"})

\* the place of node child c in the children list of p as built
BuiltPlace(p, c) == CHOOSE k \in 1..Len(built.nodes[p].children) :
    built.nodes[p].children[k] = N(c)

\* among the children of p with its shape key, c has the greatest number of
\* node children and comes first among those with that number
RichestFirst(p, c) ==
    \A d \in KidIds(built.nodes, p) \ {c} :
        unique_child_key(built.nodes[d]) = unique_child_key(built.nodes[c]) =>
            \/ BuiltCount(d) < BuiltCount(c)
            \/ (BuiltCount(d) = BuiltCount(c) /\ BuiltPlace(p, c) < BuiltPlace(p, d))

\* C3: whenever minimize collapses the node children of a node, the member it
\* keeps of each group of one shape key is the one with the most immediate
\* node children (as built), the first of those in the parent's child order;
\* leaf tokens and the relative order stay.
C3_KeepsRichestFirst ==
    pc = "minimized" =>
        \A p \in DOMAIN built.nodes :
            graph.nodes[p].children # built.nodes[p].children =>
                graph.nodes[p].children =
                    SelectSeq(built.nodes[p].children,
                              LAMBDA c : c.kind = "T" \/ RichestFirst(p, c.id))

\* a later, richer sibling replaced an earlier one of the same shape
C3_Witness ==
    /\ pc = "minimized"
    /\ \E p \in DOMAIN built.nodes : \E c, d \in KidIds(built.nodes, p) :
          /\ unique_child_key(built.nodes[c]) = unique_child_key(built.nodes[d])
          /\ BuiltPlace(p, c) < BuiltPlace(p, d)
          /\ BuiltCount(c) < BuiltCount(d)
          /\ KidIds(graph.nodes, p) = {d}

\* C4: Graph::minimize run again on the minimized graph changes nothing.
C4_MinimizeIdempotent ==
    [][(pc = "minimized" /\ pc' = "minimized") => graph' = graph]_vars

\* minimize ran twice, and the first run removed a node
C4_Witness ==
    /\ pc = "minimized"
    /\ minimized = 2
    /\ graph.nodes # built.nodes

\* the Key names strictly between the token at 0-based index i and the first
\* TagClosing or TagSelfClosing after it
KeysUpToBoundary(i) ==
    LET after == {j \in (i + 2)..Len(tokens) :
                     tokens[j].type \in {"TagClosing", "TagSelfClosing"}}
        first == CHOOSE j \in after : \A k \in after : j <= k
    IN  key_names(SubSeq(tokens, i + 2, first - 1))

\* C7: every node lex_graph creates has as its keys exactly the names of the
\* Key tokens strictly between its TagOpenStart and the first TagClosing or
\* TagSelfClosing after it, in order; for <a><b k="1">t</b></a> the node b has
\* keys [k].
C7_KeysOfNode ==
    /\ pc = "built" =>
          \A n \in 1..Len(origin) : built.nodes[n].keys = KeysUpToBoundary(origin[n])
    /\ (file = Doc_ab /\ lex_graph_done) =>
          /\ lex_graph_ok
          /\ \E n \in DOMAIN built.nodes :
                built.nodes[n].name = <<"b">> /\ built.nodes[n].keys = <<<<"k">>>>

\* the leaf tokens of a graph
LeafTokens(g) ==
    UNION {{g.nodes[p].children[k].token :
               k \in {k \in 1..Len(g.nodes[p].children) :
                        g.nodes[p].children[k].kind = "T"}} :
           p \in DOMAIN g.nodes}

\* C8: the contents of a Comment token and of a String token are never copied
\* into the rendered output.
C8_NoCommentNoValue ==
    pc = "printed" =>
        \A i \in 1..Len(tokens) :
            (tokens[i].type \in {"Comment", "String"} /\ tokens[i].val # <<>>) =>
                Find(output, tokens[i].val) = -1

\* a tree holding a Comment leaf and a String leaf was rendered
C8_Witness ==
    /\ pc = "printed"
    /\ \E t \in LeafTokens(graph) : t.type = "Comment" /\ t.val # <<>>
    /\ \E t \in LeafTokens(graph) : t.type = "String" /\ t.val # <<>>
    /\ Len(output) > 4

\* following parent links from node i reaches node 0 within fuel steps
RECURSIVE ReachesRoot(_, _, _)
ReachesRoot(nodes, i, fuel) ==
    IF i = 0 THEN TRUE
    ELSE IF fuel = 0 \/ i \notin DOMAIN nodes \/ nodes[i].parent = <<>> THEN FALSE
    ELSE ReachesRoot(nodes, nodes[i].parent[1], fuel - 1)

\* the places (node, index) of the children lists that hold N(id)
PlacesOf(nodes, id) ==
    {<<p, k>> \in UNION {{p} \X (1..Len(nodes[p].children)) : p \in DOMAIN nodes} :
        nodes[p].children[k] = N(id)}

\* C9: in every state of lex_graph and after Graph::minimize, nodes[i].id = i,
\* current is a valid index, parent links lead from every node to node 0
\* without a cycle, and no node identity occurs twice in the children lists.
C9_TreeShape ==
    /\ DOMAIN graph.nodes = 0..(VecLen(graph.nodes) - 1)
    /\ \A i \in DOMAIN graph.nodes : graph.nodes[i].id = i
    /\ graph.current \in DOMAIN graph.nodes
    /\ \A i \in DOMAIN graph.nodes :
          ReachesRoot(graph.nodes, i, VecLen(graph.nodes))
    /\ \A i \in DOMAIN graph.nodes :
          \A k \in 1..Len(graph.nodes[i].children) :
              graph.nodes[i].children[k].kind = "N" =>
                  /\ graph.nodes[i].children[k].id \in DOMAIN graph.nodes
                  /\ Cardinality(PlacesOf(graph.nodes, graph.nodes[i].children[k].id)) = 1

\* a graph of nested nodes with leaf tokens was built, closed up to the root
\* and minimized, and minimize removed a node
C9_Witness ==
    /\ pc = "minimized"
    /\ VecLen(graph.nodes) >= 4
    /\ graph.current = 0
    /\ graph.nodes # built.nodes
    /\ LeafTokens(graph) # {}
    /\ \E i \in DOMAIN graph.nodes :
          graph.nodes[i].parent # <<>> /\ graph.nodes[i].parent # <<0>>

\* C11: convert returns the render of the minimized tree with exactly the
\* opening tag <0> of the synthetic root taken off the front and exactly its
\* closing tag </0> taken off the end, and it does not abort (also when the
\* root has no children).
C11_ConvertStripsRootTags ==
    /\ pc # "convert_panic"
    /\ pc = "returned" =>
          output = <<"<", "0", ">">> \o result \o <<"<", "/", "0", ">">>

LeafTypes == {"Text", "Whitespace", "Newline", "Comment"}
TagStartTypes == {"TagOpenStart", "TagCloseStart"}

\* the index (from 1) of the first token after index p whose type is in
\* types, 0 when there is none
FirstAfter(p, types) ==
    LET after == {j \in (p + 1)..Len(tokens) : tokens[j].type \in types}
    IN  IF after = {} THEN 0 ELSE CHOOSE j \in after : \A k \in after : j <= k

\* the index (from 1) of the TagClosing that ends the open tag of node n and is
\* followed by leaf tokens only up to a later tag start; 0 when there is none
ClosingOf(n) ==
    LET c == FirstAfter(origin[n] + 1, {"TagClosing", "TagSelfClosing"})
        j == IF c = 0 THEN 0 ELSE FirstAfter(c, TagStartTypes)
    IN  IF /\ c # 0
           /\ tokens[c].type = "TagClosing"
           /\ j # 0
           /\ \A m \in (c + 1)..(j - 1) : tokens[m].type \in LeafTypes
        THEN c
        ELSE 0

\* the children list starts with the tokens c+1 .. j-1, each once and in
\* order, and what follows them is not a leaf
LeavesOnce(children, c, j) ==
    /\ Len(children) >= j - c - 1
    /\ \A m \in 1..(j - c - 1) : children[m] = T(tokens[c + m])
    /\ Len(children) > j - c - 1 => children[j - c].kind = "N"

\* C12: when lex_graph processes the TagClosing of an open tag that is
\* followed later by a tag start, the leaf tokens between the two end up in
\* the children of the current node exactly once and in source order.
C12_LeavesBetweenTagsOnce ==
    pc = "built" =>
        \A n \in 1..Len(origin) :
            ClosingOf(n) # 0 =>
                LeavesOnce(built.nodes[n].children, ClosingOf(n),
                           FirstAfter(ClosingOf(n), TagStartTypes))

\* current_token is handled by the TagSelfClosing rule or by the fallback rule
OneTokenRule ==
    /\ pc = "lex_graph"
    /\ current_token.type \notin {"TagOpenStart", "TagCloseStart", "TagClosing"}

\* C13: a token handled by the fallback rule or by the TagSelfClosing rule
\* advances lex_graph by exactly one token: the token processed next is its
\* immediate successor in the sequence (also when it is the very first
\* token), and the loop ends only when it was the last token.
C13_AdvancesOneToken ==
    [][OneTokenRule =>
          IF current_index + 1 < Len(tokens)
          THEN pc' = "lex_graph" /\ current_index' = current_index + 1
          ELSE pc' = "built"]_vars

\* C14: in every tree lex_graph returns every leaf token is a Text,
\* Whitespace, Newline or Comment token: no Key, String, TagClosing or
\* TagSelfClosing token is stored as a leaf.
C14_LeavesAreContent ==
    pc = "built" => \A t \in LeafTokens(built) : t.type \in LeafTypes

\* C15: lex_tokens never aborts on an out-of-range slice: for every input it
\* returns Ok or Err.
C15_ScannerTotal ==
    pc # "lex_panic"

\* C16: lex_tokens terminates on every input: every token lex_token accepts
\* takes at least one character off the remainder, so the remainder shrinks
\* at each step of the loop, and the loop eventually stops with the cursor at
\* the end of the input.
C16_ScannerTerminates ==
    /\ [][(pc = "lex_tokens" /\ pc' \in {"lex_tokens", "lexed"}) =>
              Len(file_to_lex') < Len(file_to_lex)]_vars
    /\ <>(pc \notin {"lex_tokens", "lex_panic"} /\ file_to_lex = <<>>)

====
